---- MODULE Spec2Model ----
(***************************************************************************)
(* Sales Analytics System: main.py, utils/file_handler.py,                 *)
(* utils/api_handler.py and utils/data_processor.py as a state machine.    *)
(*                                                                         *)
(* Representation of Python values:                                        *)
(*  - a str is a sequence of one-character strings ("T1" is <<"T","1">>);  *)
(*  - None is <<>> and a present optional value x is <<x>>;                *)
(*  - a float is [nan |-> BOOLEAN, v |-> hundredths], so 10.0 has v = 1000 *)
(*    and float("nan") has nan = TRUE; every comparison with nan is False; *)
(*  - a dict that is iterated is a sequence of entries in insertion order. *)
(***************************************************************************)
EXTENDS Integers, Sequences, FiniteSets, TLC

VARIABLES pc, file, raw_lines, parsed_data, sel_region, min_amt, max_amt,
          clean_tx, invalid_count, summary, api_data, mapping, enriched_tx,
          n_top, top_prods, enriched_file, report_file, dirs, exit_status,
          response, error, report_ret

(***************************************************************************)
(* pc            where control is: a step of main, or "call"/"done" around *)
(*               a function that is called on its own                      *)
(* file          data/sales_data.txt: missing, not openable, or its lines  *)
(*               with the encodings that decode it                         *)
(* dirs          the directories that exist                                *)
(* raw_lines, parsed_data, sel_region, min_amt, clean_tx, invalid_count,   *)
(* summary, api_data, mapping, enriched_tx: the locals of main             *)
(* max_amt       max_amount of validate_and_filter (main never passes it)  *)
(* n_top, top_prods: n and the result of top_selling_products              *)
(* response      what requests.get did, None before the fetch              *)
(* enriched_file, report_file: the two output files, None while unwritten  *)
(* report_ret    what generate_sales_report returned                       *)
(* error         the exception caught by the except of main                *)
(* exit_status   the exit status of the process once main has ended        *)
(***************************************************************************)
vars == <<pc, file, raw_lines, parsed_data, sel_region, min_amt, max_amt,
          clean_tx, invalid_count, summary, api_data, mapping, enriched_tx,
          n_top, top_prods, enriched_file, report_file, dirs, exit_status,
          response, error, report_ret>>

(* ------------------------------ bounds --------------------------------- *)

\* longest transaction list handed to validate_and_filter in SpecValidate
MaxTx == 2

(* ------------------------- Python value helpers ------------------------ *)

None == <<>>

Some(x) == <<x>>

\* float(v / 100)
F(v) == [nan |-> FALSE, v |-> v]

\* float("nan")
NaN == [nan |-> TRUE, v |-> 0]

\* a <= b on floats: False when either side is nan
FLe(a, b) == ~a.nan /\ ~b.nan /\ a.v <= b.v

\* a >= b on floats
FGe(a, b) == ~a.nan /\ ~b.nan /\ a.v >= b.v

\* a > b on floats
FGt(a, b) == ~a.nan /\ ~b.nan /\ a.v > b.v

\* int * float
FMul(q, f) == IF f.nan THEN NaN ELSE F(q * f.v)

\* float + float
FAdd(a, b) == IF a.nan \/ b.nan THEN NaN ELSE F(a.v + b.v)

\* str.startswith(c) for a one-character c
StartsWith(s, c) == Len(s) >= 1 /\ s[1] = c

\* the strings used as regions
North == <<"N", "o", "r", "t", "h">>

NorthEast == North \o <<"E", "a", "s", "t">>

north == <<"n", "o", "r", "t", "h">>

(* ------------------------ validate_and_filter -------------------------- *)

\* Quantity * UnitPrice of a transaction
Amount(t) == FMul(t.Quantity, t.UnitPrice)

\* the six checks of the validation loop, each of which can clear is_valid
is_valid(tx) ==
    /\ StartsWith(tx.TransactionID, "T")
    /\ StartsWith(tx.ProductID, "P")
    /\ StartsWith(tx.CustomerID, "C")
    /\ ~(tx.Quantity <= 0)
    /\ ~FLe(tx.UnitPrice, F(0))
    /\ ~(tx.CustomerID = <<>> \/ tx.Region = <<>>)

\* the list the loop appends the valid records to
valid_after_rules(transactions) == SelectSeq(transactions, is_valid)

\* faulty variant: counts the distinct invalid records instead of every invalid record
count_invalid_distinct(transactions) ==
    Cardinality({transactions[i] : i \in
                   {j \in 1..Len(transactions) : ~is_valid(transactions[j])}})

\* the counter the loop increments for every other record
count_invalid(transactions) ==
    Cardinality({i \in 1..Len(transactions) : ~is_valid(transactions[i])})

\* `if region:` is false for None and for the empty string
Truthy(region) == region # None /\ region[1] # <<>>

\* faulty variant: a region matches when it starts with the requested name
RegionIsPrefix(t, region) ==
    /\ Len(t.Region) >= Len(region[1])
    /\ SubSeq(t.Region, 1, Len(region[1])) = region[1]

\* t['Region'] == region
RegionIs(t, region) == t.Region = region[1]

region_filter(lst, region) ==
    IF Truthy(region)
    THEN LET Keep(t) == RegionIs(t, region) IN SelectSeq(lst, Keep)
    ELSE lst

min_filter(lst, min_amount) ==
    IF min_amount # None
    THEN LET Keep(t) == FGe(Amount(t), min_amount[1]) IN SelectSeq(lst, Keep)
    ELSE lst

max_filter(lst, max_amount) ==
    IF max_amount # None
    THEN LET Keep(t) == FLe(Amount(t), max_amount[1]) IN SelectSeq(lst, Keep)
    ELSE lst

\* the tuple (filtered_list, invalid_count, summary) the function returns
validate_and_filter(transactions, region, min_amount, max_amount) ==
    LET filtered_list ==
            max_filter(min_filter(region_filter(valid_after_rules(transactions),
                                                region), min_amount), max_amount)
        invalid == count_invalid(transactions)
    IN  <<filtered_list, invalid,
          [total_input |-> Len(transactions), invalid |-> invalid,
           final_count |-> Len(filtered_list)]>>

(* ------------------------- transaction inputs -------------------------- *)

\* a parsed record that passes every rule
BaseTx ==
    [TransactionID |-> <<"T", "1">>, Date |-> <<"0", "1">>,
     ProductID |-> <<"P", "1">>, ProductName |-> <<"A">>,
     Quantity |-> 2, UnitPrice |-> F(1000),
     CustomerID |-> <<"C", "1">>, Region |-> North]

\* parsed records that differ from BaseTx in one field
TxPool ==
    {BaseTx,
     [BaseTx EXCEPT !.TransactionID = <<"X", "1">>],
     [BaseTx EXCEPT !.ProductID = <<"X", "1">>],
     [BaseTx EXCEPT !.CustomerID = <<"D", "1">>],
     [BaseTx EXCEPT !.CustomerID = <<>>],
     [BaseTx EXCEPT !.Quantity = 0],
     [BaseTx EXCEPT !.UnitPrice = F(0)],
     [BaseTx EXCEPT !.UnitPrice = NaN],
     [BaseTx EXCEPT !.Region = <<>>],
     [BaseTx EXCEPT !.Region = NorthEast],
     [BaseTx EXCEPT !.Region = north],
     [BaseTx EXCEPT !.Quantity = 5, !.ProductName = <<"B">>],
     [BaseTx EXCEPT !.Quantity = 9, !.Region = NorthEast]}

SeqsUpTo(S, k) == UNION {[1..m -> S] : m \in 0..k}

RegionArgs == {None, Some(<<>>), Some(North), Some(NorthEast)}

AmountArgs == {None, Some(F(2000)), Some(F(5000)), Some(NaN)}

(* ------------- SpecValidate: validate_and_filter called ---------------- *)

Idle ==
    /\ file = None /\ raw_lines = <<>> /\ api_data = <<>> /\ mapping = <<>>
    /\ enriched_tx = <<>> /\ n_top = 0 /\ top_prods = <<>>
    /\ enriched_file = None /\ report_file = None /\ dirs = {}
    /\ exit_status = None /\ response = None /\ error = None
    /\ report_ret = None

InitValidate ==
    /\ pc = "call"
    /\ parsed_data \in SeqsUpTo(TxPool, MaxTx)
    /\ sel_region \in RegionArgs
    /\ min_amt \in AmountArgs
    /\ max_amt \in AmountArgs
    /\ clean_tx = <<>> /\ invalid_count = 0 /\ summary = None
    /\ Idle

Validate ==
    /\ pc = "call"
    /\ LET r == validate_and_filter(parsed_data, sel_region, min_amt, max_amt)
       IN  /\ clean_tx' = r[1]
           /\ invalid_count' = r[2]
           /\ summary' = r[3]
    /\ pc' = "done"
    /\ UNCHANGED <<file, raw_lines, parsed_data, sel_region, min_amt, max_amt,
                   api_data, mapping, enriched_tx, n_top, top_prods,
                   enriched_file, report_file, dirs, exit_status, response, error, report_ret>>

SpecValidate == InitValidate /\ [][Validate]_vars

(* ------------------- claims on validate_and_filter --------------------- *)

NoFilter == sel_region = None /\ min_amt = None /\ max_amt = None

\* the validation predicates as the specification words them
SatisfiesRules(t) ==
    /\ StartsWith(t.TransactionID, "T")
    /\ StartsWith(t.ProductID, "P")
    /\ StartsWith(t.CustomerID, "C") /\ t.CustomerID # <<>>
    /\ t.Quantity > 0
    /\ FGt(t.UnitPrice, F(0))
    /\ t.Region # <<>>

\* C1: with no filter configured the returned list is, in input order, exactly
\* the records with T/P/C prefixes, Quantity > 0, UnitPrice > 0 and a
\* non-empty CustomerID and Region.
C1_ValidIffAllPredicates ==
    (pc = "done" /\ NoFilter) => clean_tx = SelectSeq(parsed_data, SatisfiesRules)

\* what the three configured filters ask of one record
PassesFilters(t) ==
    /\ (Truthy(sel_region) => t.Region = sel_region[1])
    /\ (min_amt # None => FGe(Amount(t), min_amt[1]))
    /\ (max_amt # None => FLe(Amount(t), max_amt[1]))

\* the results of applying the three filters in each of the six orders
FilterOrders(lst) ==
    {max_filter(min_filter(region_filter(lst, sel_region), min_amt), max_amt),
     min_filter(max_filter(region_filter(lst, sel_region), max_amt), min_amt),
     max_filter(region_filter(min_filter(lst, min_amt), sel_region), max_amt),
     region_filter(max_filter(min_filter(lst, min_amt), max_amt), sel_region),
     min_filter(region_filter(max_filter(lst, max_amt), sel_region), min_amt),
     region_filter(min_filter(max_filter(lst, max_amt), min_amt), sel_region)}

\* C8: the returned list is exactly the records that passed the rules, in
\* input order, whose Region equals the requested region (when one is given)
\* and whose Amount is >= min_amount and <= max_amount (when given); an absent
\* filter constrains nothing and every order of the filters gives this list.
C8_FiltersCompose ==
    pc = "done" =>
        /\ clean_tx = SelectSeq(valid_after_rules(parsed_data), PassesFilters)
        /\ FilterOrders(valid_after_rules(parsed_data)) = {clean_tx}

\* a North filter with bounds has dropped a valid NorthEast record and kept a
\* North one
C8_Witness ==
    /\ pc = "done" /\ sel_region = Some(North)
    /\ min_amt # None /\ max_amt # None /\ Len(clean_tx) = 1
    /\ \E i \in 1..Len(parsed_data) :
          is_valid(parsed_data[i]) /\ parsed_data[i].Region = NorthEast

\* C10: total_input is the input length, summary.invalid is the returned
\* invalid count, every input record is counted once as valid or invalid,
\* final_count is the length of the returned list and at most
\* total_input - invalid, with equality when no filter is configured.
C10_Accounting ==
    pc = "done" =>
        /\ summary.total_input = Len(parsed_data)
        /\ summary.invalid = invalid_count
        /\ invalid_count + Len(valid_after_rules(parsed_data)) = summary.total_input
        /\ summary.final_count = Len(clean_tx)
        /\ summary.final_count <= summary.total_input - summary.invalid
        /\ (~Truthy(sel_region) /\ min_amt = None /\ max_amt = None)
              => summary.final_count = summary.total_input - summary.invalid

\* one record was invalid and another one was removed by a filter
C10_Witness ==
    /\ pc = "done" /\ invalid_count = 1 /\ Len(parsed_data) = 2
    /\ summary.final_count = 0

(* --------------------------- api_handler ------------------------------- *)

\* dict.get(key, default)
get(d, key, default) == IF key \in DOMAIN d THEN d[key] ELSE default

\* the defaults of create_product_mapping
UnknownProduct == <<"U", "n", "k">>

General == <<"G", "e", "n">>

Generic == <<"G", "n", "r">>

\* the value stored under one product id
product_info(item) ==
    [title |-> get(item, "title", UnknownProduct),
     category |-> get(item, "category", General),
     brand |-> get(item, "brand", Generic),
     rating |-> get(item, "rating", F(0))]

\* item['id'] raises KeyError for an item without an id
MissingId(api_products) ==
    \E i \in 1..Len(api_products) : "id" \notin DOMAIN api_products[i]

\* the dict built by the loop: a later item with the same id overwrites
RECURSIVE create_product_mapping(_)
create_product_mapping(api_products) ==
    IF api_products = <<>> THEN <<>>
    ELSE LET k == Len(api_products)
             item == api_products[k]
             before == create_product_mapping(SubSeq(api_products, 1, k - 1))
         IN  [id \in DOMAIN before \cup {item.id} |->
                 IF id = item.id THEN product_info(item) ELSE before[id]]

(* ------------------------- enrich_sales_data --------------------------- *)

Digits == <<"0", "1", "2", "3", "4", "5", "6", "7", "8", "9">>

IsDigit(c) == \E d \in 1..10 : Digits[d] = c

DigitVal(c) == (CHOOSE d \in 1..10 : Digits[d] = c) - 1

\* s.strip(): leading and trailing blanks removed
RECURSIVE Strip(_)
Strip(s) ==
    IF s = <<>> THEN s
    ELSE IF Head(s) = " " THEN Strip(Tail(s))
    ELSE IF s[Len(s)] = " " THEN Strip(SubSeq(s, 1, Len(s) - 1))
    ELSE s

\* the value of a non-empty string of decimal digits
RECURSIVE DecVal(_)
DecVal(s) ==
    IF s = <<>> THEN 0
    ELSE 10 * DecVal(SubSeq(s, 1, Len(s) - 1)) + DigitVal(s[Len(s)])

AllDigits(s) == s # <<>> /\ \A i \in 1..Len(s) : IsDigit(s[i])

\* the string without its sign
Unsigned(s) ==
    IF s # <<>> /\ Head(s) \in {"-", "+"} THEN Tail(s) ELSE s

\* whether int(s) returns (blanks around and a sign are accepted; the model's
\* alphabet has no "_" and no non-ASCII digit)
IntOk(s) == AllDigits(Unsigned(Strip(s)))

\* int(s) where it returns
IntVal(s) ==
    LET t == Strip(s)
    IN  IF Head(t) = "-" THEN 0 - DecVal(Tail(t)) ELSE DecVal(Unsigned(t))

\* int(tx['ProductID'][1:]), or -1 when that raises
prod_id_num(ProductID) ==
    IF ProductID # <<>> /\ IntOk(Tail(ProductID))
    THEN IntVal(Tail(ProductID)) ELSE 0 - 1

\* dict.update on a copy: the keys of u are set, the others kept
update(d, u) ==
    [k \in DOMAIN d \cup DOMAIN u |-> IF k \in DOMAIN u THEN u[k] ELSE d[k]]

\* the four fields set for one transaction
api_fields(tx, product_mapping) ==
    IF prod_id_num(tx.ProductID) \in DOMAIN product_mapping
    THEN LET info == product_mapping[prod_id_num(tx.ProductID)]
         IN  [API_Category |-> Some(info.category), API_Brand |-> Some(info.brand),
              API_Rating |-> Some(info.rating), API_Match |-> TRUE]
    ELSE [API_Category |-> None, API_Brand |-> None, API_Rating |-> None,
          API_Match |-> FALSE]

\* faulty variant: the update is made on tx itself, not on a copy
enrich_one_in_place(tx, product_mapping) ==
    [tx |-> update(tx, api_fields(tx, product_mapping)),
     enriched_tx |-> update(tx, api_fields(tx, product_mapping))]

\* one turn of the loop: the input object as the loop leaves it and the
\* enriched copy that is appended
enrich_one(tx, product_mapping) ==
    [tx |-> tx, enriched_tx |-> update(tx, api_fields(tx, product_mapping))]

\* enrich_sales_data: the input list after the call and the returned list
enrich_sales_data(transactions, product_mapping) ==
    [transactions |->
        [i \in 1..Len(transactions) |-> enrich_one(transactions[i], product_mapping).tx],
     enriched_list |->
        [i \in 1..Len(transactions) |->
            enrich_one(transactions[i], product_mapping).enriched_tx]]

(* --------------- SpecEnrich: enrich_sales_data called ------------------ *)

\* longest product list returned by the catalog
MaxItems == 2

Tools == <<"t", "o", "o", "l", "s">>

\* catalog items: complete, without the optional fields, and with other ids
ItemPool ==
    {[id |-> 1, title |-> <<"W">>, category |-> Tools, brand |-> <<"b">>,
      rating |-> F(450)],
     [id |-> 1],
     [id |-> 2, category |-> Tools],
     [id |-> 0 - 1, title |-> <<"Z">>, category |-> Tools]}

\* ProductIDs with and without a numeric suffix
ProductIDPool ==
    {<<"P", "1">>, <<"P", "0", "1">>, <<"P", "9">>, <<"P", "A", "B", "C">>,
     <<"P">>, <<"P", "-", "1">>, <<"P", " ", "1">>}

EnrichTxPool == {[BaseTx EXCEPT !.ProductID = p] : p \in ProductIDPool}

InitEnrich ==
    /\ pc = "map"
    /\ clean_tx \in SeqsUpTo(EnrichTxPool, MaxTx)
    /\ api_data \in SeqsUpTo(ItemPool, MaxItems)
    /\ mapping = <<>> /\ enriched_tx = <<>>
    /\ file = None /\ raw_lines = <<>> /\ parsed_data = <<>>
    /\ sel_region = None /\ min_amt = None /\ max_amt = None
    /\ invalid_count = 0 /\ summary = None /\ n_top = 0 /\ top_prods = <<>>
    /\ enriched_file = None /\ report_file = None /\ dirs = {}
    /\ exit_status = None /\ response = None /\ error = None
    /\ report_ret = None

CreateMapping ==
    /\ pc = "map"
    /\ ~MissingId(api_data)
    /\ mapping' = create_product_mapping(api_data)
    /\ pc' = "enrich"
    /\ UNCHANGED <<file, raw_lines, parsed_data, sel_region, min_amt, max_amt,
                   clean_tx, invalid_count, summary, api_data, enriched_tx,
                   n_top, top_prods, enriched_file, report_file, dirs,
                   exit_status, response, error, report_ret>>

\* enrich_sales_data(clean_tx, mapping), control then passing to `next`
EnrichTo(next) ==
    /\ pc = "enrich"
    /\ LET r == enrich_sales_data(clean_tx, mapping)
       IN  /\ clean_tx' = r.transactions
           /\ enriched_tx' = r.enriched_list
    /\ pc' = next
    /\ UNCHANGED <<file, raw_lines, parsed_data, sel_region, min_amt, max_amt,
                   invalid_count, summary, api_data, mapping, n_top, top_prods,
                   enriched_file, report_file, dirs, exit_status, response, error, report_ret>>

Enrich == EnrichTo("done")

SpecEnrich == InitEnrich /\ [][CreateMapping \/ Enrich]_vars

(* -------------------- claims on enrich_sales_data ---------------------- *)

\* the ProductID has no valid integer after its first character
LacksNumericSuffix(ProductID) == ProductID = <<>> \/ ~IntOk(Tail(ProductID))

Unmatched(e) ==
    /\ e.API_Match = FALSE
    /\ e.API_Category = None /\ e.API_Brand = None /\ e.API_Rating = None

\* C4: a transaction whose ProductID lacks a valid numeric suffix is enriched,
\* whatever the catalog mapping, to API_Match = False with the three API
\* fields null.
C4_BadSuffixUnmatched ==
    pc = "done" =>
        \A i \in 1..Len(clean_tx) :
            LacksNumericSuffix(clean_tx[i].ProductID) => Unmatched(enriched_tx[i])

TxFields ==
    {"TransactionID", "Date", "ProductID", "ProductName", "Quantity",
     "UnitPrice", "CustomerID", "Region"}

\* C5: the call returns one record per input transaction, the i-th carrying
\* the eight field values of the i-th input, and leaves the input records as
\* they were (eight fields each, no API_* field).
C5_TotalOrderPreserving ==
    [][(pc = "enrich" /\ pc' = "done") =>
          /\ Len(enriched_tx') = Len(clean_tx)
          /\ \A i \in 1..Len(clean_tx) :
                \A k \in TxFields : enriched_tx'[i][k] = clean_tx[i][k]
          /\ clean_tx' = clean_tx
          /\ \A i \in 1..Len(clean_tx') : DOMAIN clean_tx'[i] = TxFields]_vars

\* two transactions were enriched, the first matched and the second not
C5_Witness ==
    /\ pc = "done" /\ Len(clean_tx) = 2 /\ Len(enriched_tx) = 2
    /\ clean_tx[1].ProductID = <<"P", "0", "1">> /\ enriched_tx[1].API_Match
    /\ clean_tx[2].ProductID = <<"P", "9">> /\ ~enriched_tx[2].API_Match

(* ------------------------ top_selling_products ------------------------- *)

\* position of the product's entry in product_data, 0 when it has none
IndexOf(product_data, name) ==
    IF \E i \in 1..Len(product_data) : product_data[i].name = name
    THEN CHOOSE i \in 1..Len(product_data) : product_data[i].name = name
    ELSE 0

\* one turn of the accumulation loop on the insertion-ordered dict
accumulate(product_data, t) ==
    LET i == IndexOf(product_data, t.ProductName)
        d == IF i = 0
             THEN Append(product_data,
                         [name |-> t.ProductName, qty |-> 0, rev |-> F(0)])
             ELSE product_data
        j == IF i = 0 THEN Len(d) ELSE i
    IN  [d EXCEPT ![j].qty = @ + t.Quantity,
                  ![j].rev = FAdd(@, FMul(t.Quantity, t.UnitPrice))]

\* product_data after the loop over the transactions
RECURSIVE product_totals(_)
product_totals(transactions) ==
    IF transactions = <<>> THEN <<>>
    ELSE accumulate(product_totals(SubSeq(transactions, 1, Len(transactions) - 1)),
                    transactions[Len(transactions)])

\* faulty variant: an entry goes before the entries of equal quantity
insert_before_equal(lst, e) ==
    LET k == Cardinality({i \in 1..Len(lst) : lst[i].qty > e.qty})
    IN  SubSeq(lst, 1, k) \o <<e>> \o SubSeq(lst, k + 1, Len(lst))

\* a stable sort places an entry after the entries of greater or equal key
insert_sorted(lst, e) ==
    LET k == Cardinality({i \in 1..Len(lst) : lst[i].qty >= e.qty})
    IN  SubSeq(lst, 1, k) \o <<e>> \o SubSeq(lst, k + 1, Len(lst))

\* result.sort(key=qty, reverse=True): stable, equal keys keep their order
RECURSIVE sort_by_qty_desc(_)
sort_by_qty_desc(result) ==
    IF result = <<>> THEN <<>>
    ELSE insert_sorted(sort_by_qty_desc(SubSeq(result, 1, Len(result) - 1)),
                       result[Len(result)])

\* result[:n] for n >= 0
take(result, n) == SubSeq(result, 1, IF n < Len(result) THEN n ELSE Len(result))

top_selling_products(transactions, n) ==
    take(sort_by_qty_desc(product_totals(transactions)), n)

(* -------------- SpecTop: top_selling_products called ------------------- *)

\* longest transaction list handed to top_selling_products in SpecTop
MaxTopTx == 3

\* largest n asked of top_selling_products in SpecTop
MaxN == 3

TopTxPool ==
    {[BaseTx EXCEPT !.ProductName = nm, !.Quantity = q] :
        nm \in {<<"A">>, <<"B">>, <<"C">>}, q \in {1, 2}}
    \cup {[BaseTx EXCEPT !.ProductName = <<"A">>, !.Quantity = 1,
                         !.UnitPrice = F(250)],
          [BaseTx EXCEPT !.ProductName = <<"B">>, !.Quantity = 1,
                         !.UnitPrice = NaN],
          [BaseTx EXCEPT !.ProductName = <<"C">>, !.Quantity = 0 - 1]}

InitTop ==
    /\ pc = "call"
    /\ clean_tx \in SeqsUpTo(TopTxPool, MaxTopTx)
    /\ n_top \in 0..MaxN
    /\ top_prods = <<>>
    /\ file = None /\ raw_lines = <<>> /\ parsed_data = <<>>
    /\ sel_region = None /\ min_amt = None /\ max_amt = None
    /\ invalid_count = 0 /\ summary = None /\ api_data = <<>> /\ mapping = <<>>
    /\ enriched_tx = <<>> /\ enriched_file = None /\ report_file = None
    /\ dirs = {} /\ exit_status = None /\ response = None /\ error = None
    /\ report_ret = None

TopSelling ==
    /\ pc = "call"
    /\ top_prods' = top_selling_products(clean_tx, n_top)
    /\ pc' = "done"
    /\ UNCHANGED <<file, raw_lines, parsed_data, sel_region, min_amt, max_amt,
                   clean_tx, invalid_count, summary, api_data, mapping,
                   enriched_tx, n_top, enriched_file, report_file, dirs,
                   exit_status, response, error, report_ret>>

SpecTop == InitTop /\ [][TopSelling]_vars

(* ------------------- claims on top_selling_products -------------------- *)

ProductNames == {clean_tx[i].ProductName : i \in 1..Len(clean_tx)}

\* index of the first transaction of the product
FirstSeen(name) ==
    CHOOSE i \in 1..Len(clean_tx) :
        /\ clean_tx[i].ProductName = name
        /\ \A j \in 1..(i - 1) : clean_tx[j].ProductName # name

\* summed quantity of the product over the first k transactions
RECURSIVE SumQty(_, _)
SumQty(name, k) ==
    IF k = 0 THEN 0
    ELSE SumQty(name, k - 1)
         + (IF clean_tx[k].ProductName = name THEN clean_tx[k].Quantity ELSE 0)

\* summed revenue of the product over the first k transactions
RECURSIVE SumRev(_, _)
SumRev(name, k) ==
    IF k = 0 THEN F(0)
    ELSE IF clean_tx[k].ProductName = name
         THEN FAdd(SumRev(name, k - 1), Amount(clean_tx[k]))
         ELSE SumRev(name, k - 1)

\* a ranks before b: more quantity, or as much and seen first
RanksBefore(a, b) ==
    \/ SumQty(a, Len(clean_tx)) > SumQty(b, Len(clean_tx))
    \/ /\ SumQty(a, Len(clean_tx)) = SumQty(b, Len(clean_tx))
       /\ FirstSeen(a) < FirstSeen(b)

\* C9: the result has at most n entries, one per distinct product name, each
\* with the product's summed quantity and revenue, in descending summed
\* quantity with ties in first-encountered order, and they are the n first of
\* that ordering.
C9_TopN ==
    pc = "done" =>
        /\ Len(top_prods) <= n_top
        /\ Len(top_prods) =
              (IF n_top < Cardinality(ProductNames) THEN n_top
               ELSE Cardinality(ProductNames))
        /\ \A i \in 1..Len(top_prods) :
              /\ top_prods[i].name \in ProductNames
              /\ top_prods[i].qty = SumQty(top_prods[i].name, Len(clean_tx))
              /\ top_prods[i].rev = SumRev(top_prods[i].name, Len(clean_tx))
        /\ \A i, j \in 1..Len(top_prods) :
              i < j => RanksBefore(top_prods[i].name, top_prods[j].name)
        /\ \A nm \in ProductNames :
              (\A i \in 1..Len(top_prods) : top_prods[i].name # nm)
                 => \A i \in 1..Len(top_prods) : RanksBefore(top_prods[i].name, nm)

\* two products tie on summed quantity, the first-seen one only through its
\* second sale; n = 1 returns the first-seen one and cuts the other off
C9_Witness ==
    /\ pc = "done" /\ n_top = 1 /\ Len(clean_tx) = 3 /\ Len(top_prods) = 1
    /\ Cardinality(ProductNames) = 2
    /\ \A nm \in ProductNames : SumQty(nm, 3) = 2
    /\ clean_tx[1].ProductName = clean_tx[3].ProductName
    /\ top_prods[1].name = clean_tx[1].ProductName

(* ---------------------------- str helpers ------------------------------ *)

\* s.replace(c, r) for a one-character c
RECURSIVE Replace(_, _, _)
Replace(s, c, r) ==
    IF s = <<>> THEN <<>>
    ELSE (IF Head(s) = c THEN r ELSE <<Head(s)>>) \o Replace(Tail(s), c, r)

\* s.split(sep) for a one-character sep
RECURSIVE Split(_, _)
Split(s, sep) ==
    IF \A i \in 1..Len(s) : s[i] # sep THEN <<s>>
    ELSE LET i == CHOOSE k \in 1..Len(s) :
                      s[k] = sep /\ \A j \in 1..(k - 1) : s[j] # sep
         IN  <<SubSeq(s, 1, i - 1)>> \o Split(SubSeq(s, i + 1, Len(s)), sep)

\* sep.join(parts)
RECURSIVE Join(_, _)
Join(parts, sep) ==
    IF parts = <<>> THEN <<>>
    ELSE IF Len(parts) = 1 THEN parts[1]
    ELSE parts[1] \o sep \o Join(Tail(parts), sep)

\* the characters the model's strings are made of, in code-point order
Alphabet ==
    <<" ", "+", ",", "-", ".", "0", "1", "2", "3", "4", "5", "6", "7", "8",
      "9", "A", "B", "C", "D", "E", "F", "N", "P", "T", "U", "W", "X", "Z",
      "a", "b", "e", "h", "l", "n", "o", "r", "s", "t", "w", "x", "|">>

Ord(c) == CHOOSE i \in 1..Len(Alphabet) : Alphabet[i] = c

\* a < b on str
RECURSIVE StrLt(_, _)
StrLt(a, b) ==
    IF b = <<>> THEN FALSE
    ELSE IF a = <<>> THEN TRUE
    ELSE IF Head(a) # Head(b) THEN Ord(Head(a)) < Ord(Head(b))
    ELSE StrLt(Tail(a), Tail(b))

\* str(i) for an int
RECURSIVE IntStr(_)
IntStr(i) ==
    IF i < 0 THEN <<"-">> \o IntStr(0 - i)
    ELSE IF i < 10 THEN <<Digits[i + 1]>>
    ELSE IntStr(i \div 10) \o <<Digits[(i % 10) + 1]>>

\* str(f) for a float of hundredths
FloatStr(f) ==
    IF f.nan THEN <<"n", "a", "n">>
    ELSE LET a == IF f.v < 0 THEN 0 - f.v ELSE f.v
             frac == a % 100
         IN  (IF f.v < 0 THEN <<"-">> ELSE <<>>) \o IntStr(a \div 100) \o <<".">>
             \o (IF frac % 10 = 0 THEN <<Digits[(frac \div 10) + 1]>>
                 ELSE <<Digits[(frac \div 10) + 1], Digits[(frac % 10) + 1]>>)

\* whether float(s) returns: "nan", or digits with an optional fraction, after
\* blanks and a sign (the model's inputs have at most two fraction digits and
\* no exponent)
FloatOk(s) ==
    LET u == Unsigned(Strip(s))
        parts == Split(u, ".")
    IN  \/ u = <<"n", "a", "n">>
        \/ /\ Len(parts) <= 2
           /\ \A i \in 1..Len(parts) : \A j \in 1..Len(parts[i]) : IsDigit(parts[i][j])
           /\ \E i \in 1..Len(parts) : parts[i] # <<>>

\* float(s) where it returns
FloatVal(s) ==
    LET t == Strip(s)
        u == Unsigned(t)
        parts == Split(u, ".")
        frac == IF Len(parts) = 2 THEN parts[2] ELSE <<>>
        cents == IF Len(frac) = 0 THEN 0
                 ELSE IF Len(frac) = 1 THEN 10 * DecVal(frac)
                 ELSE DecVal(SubSeq(frac, 1, 2))
        a == 100 * DecVal(parts[1]) + cents
    IN  IF u = <<"n", "a", "n">> THEN NaN
        ELSE IF Head(t) = "-" THEN F(0 - a) ELSE F(a)

(* ------------------------- parse_transactions -------------------------- *)

\* whether the line yields a record: eight parts and two numeric conversions
parses(line) ==
    LET parts == Split(line, "|")
    IN  /\ Len(parts) = 8
        /\ IntOk(Replace(parts[5], ",", <<>>))
        /\ FloatOk(Replace(parts[6], ",", <<>>))

\* the record built from a line that parses
transaction(line) ==
    LET parts == Split(line, "|")
    IN  [TransactionID |-> Strip(parts[1]),
         Date |-> Strip(parts[2]),
         ProductID |-> Strip(parts[3]),
         ProductName |-> Strip(Replace(parts[4], ",", <<" ">>)),
         Quantity |-> IntVal(Replace(parts[5], ",", <<>>)),
         UnitPrice |-> FloatVal(Replace(parts[6], ",", <<>>)),
         CustomerID |-> Strip(parts[7]),
         Region |-> Strip(parts[8])]

RECURSIVE parse_transactions(_)
parse_transactions(lines) ==
    IF lines = <<>> THEN <<>>
    ELSE (IF parses(Head(lines)) THEN <<transaction(Head(lines))>> ELSE <<>>)
         \o parse_transactions(Tail(lines))

(* --------------------------- read_sales_data --------------------------- *)

encodings == <<"utf-8", "latin-1", "cp1252">>

NonBlank(line) == Strip(line) # <<>>

\* [line.strip() for line in lines[1:] if line.strip()]
strip_lines(lines) ==
    LET rest == IF lines = <<>> THEN <<>> ELSE Tail(lines)
        kept == SelectSeq(rest, NonBlank)
    IN  [i \in 1..Len(kept) |-> Strip(kept[i])]

\* the loop over the encodings from the k-th one: what is returned, or the
\* exception that leaves the function (only UnicodeDecodeError and
\* FileNotFoundError are handled)
RECURSIVE try_encodings(_, _)
try_encodings(f, k) ==
    IF k > Len(encodings) THEN [raised |-> None, value |-> <<>>]
    ELSE IF f.status = "missing" THEN [raised |-> None, value |-> <<>>]
    ELSE IF f.status = "denied"
         THEN [raised |-> Some("PermissionError"), value |-> <<>>]
    ELSE IF encodings[k] \in f.decodes
         THEN [raised |-> None, value |-> strip_lines(f.lines)]
    ELSE try_encodings(f, k + 1)

read_sales_data(f) == try_encodings(f, 1)

(* -------------------------- fetch_all_products ------------------------- *)

\* the list returned for what requests.get did: an exception, a status other
\* than 200 and a body that is no JSON all give []
fetch_all_products(resp) ==
    IF resp.kind = "exception" THEN <<>>
    ELSE IF resp.status_code # 200 THEN <<>>
    ELSE IF resp.json = None THEN <<>>
    ELSE get(resp.json[1], "products", <<>>)

(* ------------------- aggregations used by the report ------------------- *)

\* sum(Quantity * UnitPrice)
RECURSIVE calculate_total_revenue(_)
calculate_total_revenue(transactions) ==
    IF transactions = <<>> THEN F(0)
    ELSE FAdd(calculate_total_revenue(SubSeq(transactions, 1, Len(transactions) - 1)),
              Amount(transactions[Len(transactions)]))

\* sorted(S) for a set of str
RECURSIVE sorted(_)
sorted(S) ==
    IF S = {} THEN <<>>
    ELSE LET m == CHOOSE x \in S : \A y \in S \ {x} : StrLt(x, y)
         IN  <<m>> \o sorted(S \ {m})

\* the entry of one date: revenue, number of transactions, distinct customers
trend_entry(transactions, d) ==
    LET OnDate(t) == t.Date = d
        day == SelectSeq(transactions, OnDate)
    IN  [date |-> d,
         revenue |-> calculate_total_revenue(day),
         transaction_count |-> Len(day),
         unique_customers |-> Cardinality({day[i].CustomerID : i \in 1..Len(day)})]

\* the per-date entries in ascending date order
daily_sales_trend(transactions) ==
    LET dates == sorted({transactions[i].Date : i \in 1..Len(transactions)})
    IN  [i \in 1..Len(dates) |-> trend_entry(transactions, dates[i])]

\* max(trend, key=revenue): the first entry no later entry exceeds
RECURSIVE max_revenue(_)
max_revenue(trend) ==
    IF Len(trend) = 1 THEN trend[1]
    ELSE LET best == max_revenue(SubSeq(trend, 1, Len(trend) - 1))
             last == trend[Len(trend)]
         IN  IF FGt(last.revenue, best.revenue) THEN last ELSE best

\* None for no transactions, else (peak_date, revenue, transaction_count)
find_peak_sales_day(transactions) ==
    LET trend == daily_sales_trend(transactions)
    IN  IF trend = <<>> THEN None
        ELSE LET e == max_revenue(trend)
             IN  Some(<<e.date, e.revenue, e.transaction_count>>)

\* min(dates) and max(dates)
date_range(transactions) ==
    LET dates == {transactions[i].Date : i \in 1..Len(transactions)}
        s == sorted(dates)
    IN  IF transactions = <<>> THEN <<"N", "/", "A">>
        ELSE s[1] \o <<" ", "t", "o", " ">> \o s[Len(s)]

\* n of the top_selling_products call of the report
TopN == 5

\* region_wise_sales divides each region's sales by the total revenue
region_wise_sales_raises(transactions) ==
    transactions # <<>> /\ calculate_total_revenue(transactions) = F(0)

\* the values generate_sales_report gathers (section 2) for the summary, the
\* top products, the daily trend, the peak day and the enrichment summary; the
\* average is kept as the fraction total_rev / total_tx. The region table and
\* the low performers are rendered from the same list and add no outcome.
report_values(transactions, enriched_transactions) ==
    LET total_rev == calculate_total_revenue(transactions)
        total_tx == Len(transactions)
        Matched(t) == t.API_Match
        NotMatched(t) == ~t.API_Match
        failed == SelectSeq(enriched_transactions, NotMatched)
        peak == find_peak_sales_day(transactions)
    IN  [records |-> total_tx,
         total_rev |-> total_rev,
         total_tx |-> total_tx,
         avg_order |-> IF total_tx > 0 THEN [num |-> total_rev, den |-> total_tx]
                       ELSE [num |-> F(0), den |-> 1],
         date_range |-> date_range(transactions),
         top_prods |-> top_selling_products(transactions, TopN),
         trend |-> daily_sales_trend(transactions),
         peak_day |-> peak[1][1],
         peak_rev |-> peak[1][2],
         total_enriched |-> Len(SelectSeq(enriched_transactions, Matched)),
         failed_products |->
             take(sorted({failed[i].ProductName : i \in 1..Len(failed)}), TopN)]

(* ------------------------- save_enriched_data -------------------------- *)

\* the header row, each name as a str
headers_row ==
    << <<"T", "I", "D">>, <<"D", "a", "t", "e">>, <<"P", "I", "D">>,
       <<"P", "N">>, <<"Q">>, <<"U">>, <<"C", "I", "D">>, <<"R">>,
       <<"A", "C">>, <<"A", "B">>, <<"A", "R">>, <<"A", "M">> >>

headers ==
    <<"TransactionID", "Date", "ProductID", "ProductName", "Quantity",
      "UnitPrice", "CustomerID", "Region", "API_Category", "API_Brand",
      "API_Rating", "API_Match">>

\* str(tx.get(h, "None"))
cell(tx, h) ==
    IF h \notin DOMAIN tx THEN <<"N", "o", "n", "e">>
    ELSE IF h = "Quantity" THEN IntStr(tx[h])
    ELSE IF h = "UnitPrice" THEN FloatStr(tx[h])
    ELSE IF h = "API_Match"
         THEN (IF tx[h] THEN <<"T", "r", "u", "e">> ELSE <<"F", "a", "l", "s", "e">>)
    ELSE IF h \in {"API_Category", "API_Brand", "API_Rating"}
         THEN (IF tx[h] = None THEN <<"N", "o", "n", "e">>
               ELSE IF h = "API_Rating" THEN FloatStr(tx[h][1]) ELSE tx[h][1])
    ELSE tx[h]

\* the data rows written after the header row
rows(enriched_transactions) ==
    [i \in 1..Len(enriched_transactions) |->
        Join([j \in 1..Len(headers) |-> cell(enriched_transactions[i], headers[j])],
             <<"|">>)]

(* ------------------------ Spec: one run of main ------------------------ *)

\* most data lines of the input file
MaxLines == 2

Line(fields) == Join(fields, <<"|">>)

\* the fields of a line that parses to BaseTx
BaseFields ==
    << <<"T", "1">>, <<"0", "1">>, <<"P", "1">>, <<"A">>, <<"2">>,
       <<"1", "0", ".", "0">>, <<"C", "1">>, North >>

\* data lines: valid ones, one failing a rule, two that do not parse, one with
\* a nan price and a ProductID without a number, and a blank one
LinePool ==
    {Line(BaseFields),
     Line([BaseFields EXCEPT ![1] = <<"T", "2">>, ![2] = <<"0", "2">>,
                             ![3] = <<"P", "9">>, ![4] = <<"B", ",", "x">>,
                             ![5] = <<"1", ",", "0">>, ![6] = <<" ", "5", ".", "5">>,
                             ![8] = NorthEast]),
     Line([BaseFields EXCEPT ![1] = <<"X", "3">>]),
     Line(SubSeq(BaseFields, 1, 7)),
     Line([BaseFields EXCEPT ![5] = <<"t", "w", "o">>]),
     Line([BaseFields EXCEPT ![3] = <<"P", "A", "B", "C">>, ![6] = <<"n", "a", "n">>]),
     <<" ">>}

Header == <<"T", "|", "D">>

FilePool ==
    {[status |-> "missing", decodes |-> {}, lines |-> <<>>],
     [status |-> "denied", decodes |-> {}, lines |-> <<>>]}
    \cup {[status |-> "ok", decodes |-> d, lines |-> l] :
            d \in {{"utf-8", "latin-1", "cp1252"}, {"latin-1", "cp1252"}},
            l \in {<<>>} \cup {<<Header>> \o b : b \in SeqsUpTo(LinePool, MaxLines)}}

\* what requests.get can do: raise, answer with another status, answer 200
\* with a body that is no JSON, without a products key, or with products
ResponsePool ==
    {[kind |-> "exception", status_code |-> 0, json |-> None],
     [kind |-> "response", status_code |-> 500, json |-> None],
     [kind |-> "response", status_code |-> 200, json |-> None],
     [kind |-> "response", status_code |-> 200, json |-> Some([total |-> 0])]}
    \cup {[kind |-> "response", status_code |-> 200, json |-> Some([products |-> l])] :
            l \in SeqsUpTo(ItemPool, 1) \cup {<<[title |-> <<"W">>]>>}}

Init ==
    /\ pc = "read"
    /\ file \in FilePool
    /\ dirs \in {{"data"}, {"data", "output"}}
    /\ raw_lines = <<>> /\ parsed_data = <<>>
    /\ sel_region = None /\ min_amt = None /\ max_amt = None
    /\ clean_tx = <<>> /\ invalid_count = 0 /\ summary = None
    /\ api_data = <<>> /\ mapping = <<>> /\ enriched_tx = <<>>
    /\ n_top = 0 /\ top_prods = <<>>
    /\ enriched_file = None /\ report_file = None
    /\ exit_status = None /\ response = None /\ error = None
    /\ report_ret = None

\* the `except Exception` of main: the message is printed and sys.exit(1)
Fails(step, type) ==
    /\ pc' = "exit1"
    /\ exit_status' = Some(1)
    /\ error' = Some([step |-> step, type |-> type])

\* [1/10]: read_sales_data, and the return of main on an empty result
ReadData ==
    /\ pc = "read"
    /\ LET r == read_sales_data(file)
       IN  IF r.raised # None
           THEN Fails("read", r.raised[1]) /\ UNCHANGED raw_lines
           ELSE /\ raw_lines' = r.value
                /\ IF r.value = <<>>
                   THEN pc' = "returned" /\ exit_status' = Some(0)
                   ELSE pc' = "parse" /\ UNCHANGED exit_status
                /\ UNCHANGED error
    /\ UNCHANGED <<file, parsed_data, sel_region, min_amt, max_amt, clean_tx,
                   invalid_count, summary, api_data, mapping, enriched_tx,
                   n_top, top_prods, enriched_file, report_file, dirs,
                   response, report_ret>>

\* [2/10]: parse_transactions
Parse ==
    /\ pc = "parse"
    /\ parsed_data' = parse_transactions(raw_lines)
    /\ pc' = "options"
    /\ UNCHANGED <<file, raw_lines, sel_region, min_amt, max_amt, clean_tx,
                   invalid_count, summary, api_data, mapping, enriched_tx,
                   n_top, top_prods, enriched_file, report_file, dirs,
                   exit_status, response, error, report_ret>>

\* [3/10]: the regions and the amount range; min() of no amounts raises
ShowOptions ==
    /\ pc = "options"
    /\ IF parsed_data = <<>>
       THEN Fails("options", "ValueError")
       ELSE pc' = "ask" /\ UNCHANGED <<exit_status, error>>
    /\ UNCHANGED <<file, raw_lines, parsed_data, sel_region, min_amt, max_amt,
                   clean_tx, invalid_count, summary, api_data, mapping,
                   enriched_tx, n_top, top_prods, enriched_file, report_file,
                   dirs, response, report_ret>>

\* str.lower() on the answers the model gives
Lower(s) == [i \in 1..Len(s) |-> IF s[i] = "Y" THEN "y" ELSE s[i]]

\* input(...).strip() or None
strip_or_none(s) == IF Strip(s) = <<>> THEN None ELSE Some(Strip(s))

\* the three questions: the filter is asked for only after the answer y, and a
\* minimum that is no number raises
AskFilter ==
    /\ pc = "ask"
    /\ \E do_filter \in {<<"y">>, <<"Y">>, <<"n">>},
          region_input \in {<<>>, North \o <<" ">>, NorthEast},
          min_input \in {<<>>, <<"1", "5">>, <<"x">>} :
          IF Lower(do_filter) # <<"y">>
          THEN /\ pc' = "validate"
               /\ UNCHANGED <<sel_region, min_amt, exit_status, error>>
          ELSE IF Strip(min_input) # <<>> /\ ~FloatOk(Strip(min_input))
          THEN /\ Fails("ask", "ValueError")
               /\ sel_region' = strip_or_none(region_input)
               /\ UNCHANGED min_amt
          ELSE /\ pc' = "validate"
               /\ sel_region' = strip_or_none(region_input)
               /\ min_amt' = IF Strip(min_input) = <<>> THEN None
                             ELSE Some(FloatVal(Strip(min_input)))
               /\ UNCHANGED <<exit_status, error>>
    /\ UNCHANGED <<file, raw_lines, parsed_data, max_amt, clean_tx,
                   invalid_count, summary, api_data, mapping, enriched_tx,
                   n_top, top_prods, enriched_file, report_file, dirs,
                   response, report_ret>>

\* [4/10]: validate_and_filter(parsed_data, region=sel_region, min_amount=min_amt)
MainValidate ==
    /\ pc = "validate"
    /\ LET r == validate_and_filter(parsed_data, sel_region, min_amt, None)
       IN  /\ clean_tx' = r[1]
           /\ invalid_count' = r[2]
           /\ summary' = r[3]
    /\ pc' = "fetch"
    /\ UNCHANGED <<file, raw_lines, parsed_data, sel_region, min_amt, max_amt,
                   api_data, mapping, enriched_tx, n_top, top_prods,
                   enriched_file, report_file, dirs, exit_status, response,
                   error, report_ret>>

\* [6/10]: fetch_all_products on whatever the request does
Fetch ==
    /\ pc = "fetch"
    /\ \E resp \in ResponsePool :
          /\ response' = Some(resp)
          /\ api_data' = fetch_all_products(resp)
    /\ pc' = "map"
    /\ UNCHANGED <<file, raw_lines, parsed_data, sel_region, min_amt, max_amt,
                   clean_tx, invalid_count, summary, mapping, enriched_tx,
                   n_top, top_prods, enriched_file, report_file, dirs,
                   exit_status, error, report_ret>>

\* [7/10]: create_product_mapping raising KeyError on an item without an id
MappingFails ==
    /\ pc = "map"
    /\ MissingId(api_data)
    /\ Fails("map", "KeyError")
    /\ UNCHANGED <<file, raw_lines, parsed_data, sel_region, min_amt, max_amt,
                   clean_tx, invalid_count, summary, api_data, mapping,
                   enriched_tx, n_top, top_prods, enriched_file, report_file,
                   dirs, response, report_ret>>

\* [7/10]: enrich_sales_data(clean_tx, mapping)
MainEnrich == EnrichTo("save")

\* [8/10]: save_enriched_data; an OSError of open or write is not handled
SaveEnriched ==
    /\ pc = "save"
    /\ \E io_ok \in BOOLEAN :
          IF io_ok
          THEN /\ enriched_file' = Some(<<Join(headers_row, <<"|">>)>> \o rows(enriched_tx))
               /\ pc' = "report"
               /\ UNCHANGED <<exit_status, error>>
          ELSE Fails("save", "OSError") /\ UNCHANGED enriched_file
    /\ UNCHANGED <<file, raw_lines, parsed_data, sel_region, min_amt, max_amt,
                   clean_tx, invalid_count, summary, api_data, mapping,
                   enriched_tx, n_top, top_prods, report_file, dirs, response,
                   report_ret>>

\* [9/10] and [10/10]: generate_sales_report(clean_tx, enriched_tx).
\* os.makedirs runs first and outside any try; unpacking the None that
\* find_peak_sales_day returns for no transactions raises TypeError; only the
\* write of the file is inside try/except and makes the function return False.
GenerateReport ==
    /\ pc = "report"
    /\ \E mkdir_ok \in BOOLEAN, write_ok \in BOOLEAN :
          IF "output" \notin dirs /\ ~mkdir_ok
          THEN /\ Fails("report", "OSError")
               /\ UNCHANGED <<dirs, report_file, report_ret>>
          ELSE /\ dirs' = dirs \cup {"output"}
               /\ IF region_wise_sales_raises(clean_tx)
                  THEN /\ Fails("report", "ZeroDivisionError")
                       /\ UNCHANGED <<report_file, report_ret>>
                  ELSE IF find_peak_sales_day(clean_tx) = None
                  THEN /\ Fails("report", "TypeError")
                       /\ UNCHANGED <<report_file, report_ret>>
                  ELSE /\ IF write_ok
                          THEN /\ report_file' = Some(report_values(clean_tx, enriched_tx))
                               /\ report_ret' = Some(TRUE)
                          ELSE /\ report_ret' = Some(FALSE)
                               /\ UNCHANGED report_file
                       /\ pc' = "done"
                       /\ exit_status' = Some(0)
                       /\ UNCHANGED error
    /\ UNCHANGED <<file, raw_lines, parsed_data, sel_region, min_amt, max_amt,
                   clean_tx, invalid_count, summary, api_data, mapping,
                   enriched_tx, n_top, top_prods, enriched_file, response>>

Next ==
    \/ ReadData
    \/ Parse
    \/ ShowOptions
    \/ AskFilter
    \/ MainValidate
    \/ Fetch
    \/ CreateMapping
    \/ MappingFails
    \/ MainEnrich
    \/ SaveEnriched
    \/ GenerateReport

Spec == Init /\ [][Next]_vars

(* ------------------------ claims on the run ---------------------------- *)

\* an OSError left a writer and reached the except of main
WriterRaised ==
    /\ pc = "exit1"
    /\ error[1].type = "OSError"
    /\ error[1].step \in {"save", "report"}

\* generate_sales_report was called and has returned or raised
ReportEnded == pc = "done" \/ (pc = "exit1" /\ error[1].step = "report")

\* C2: with no valid transaction (empty clean_tx and enriched_tx) and no I/O
\* failure, generate_sales_report completes and the report shows revenue 0.00,
\* average order value 0 and the date range N/A.
C2_EmptyReportCompletes ==
    (/\ clean_tx = <<>> /\ enriched_tx = <<>>
     /\ ReportEnded /\ ~WriterRaised /\ report_ret # Some(FALSE))
    => /\ pc = "done"
       /\ report_ret = Some(TRUE)
       /\ report_file[1].total_rev = F(0)
       /\ report_file[1].avg_order.num = F(0)
       /\ report_file[1].date_range = <<"N", "/", "A">>

\* C3: an I/O failure while writing the enriched file or the report (the
\* creation of its directory included) never leaves the writer as an
\* exception, so it never ends the run.
C3_WriteFailureNotFatal == ~WriterRaised

\* the request raised or was answered with a status other than 200
FetchFailed ==
    /\ response # None
    /\ (response[1].kind = "exception" \/ response[1].status_code # 200)

\* C6: after a failed catalog fetch the product list and the mapping are
\* empty, every enriched transaction is unmatched, and the run does not abort
\* on its way through enrichment, saving and the report.
C6_FetchFailureRecoverable ==
    FetchFailed =>
        /\ api_data = <<>>
        /\ DOMAIN mapping = {}
        /\ \A i \in 1..Len(enriched_tx) : ~enriched_tx[i].API_Match
        /\ pc # "exit1"

\* C7: with a missing or unreadable input file read_sales_data gives an empty
\* list, main returns at once with nothing parsed, fetched or written, and the
\* process does not exit with a failure status.
C7_NoInputReturnsEarly ==
    (file.status \in {"missing", "denied"} /\ pc # "read") =>
        /\ pc = "returned"
        /\ exit_status = Some(0)
        /\ raw_lines = <<>> /\ parsed_data = <<>>
        /\ response = None
        /\ enriched_file = None /\ report_file = None

====
